---- MODULE Spec2Model ----
(***************************************************************************)
(* Instagram extractor service with Convex account rotation                *)
(* (src/instagram-service/main.py).                                        *)
(*                                                                         *)
(* Each request to POST /extract-instagram is a process that walks through *)
(* extract_instagram: validate the URL, read the next account from the     *)
(* registry, log in, fetch the media, sleep, fetch the comments, report    *)
(* usage, respond.  Requests run concurrently; the only state they share   *)
(* is the account registry behind convex_query / convex_mutation.          *)
(*                                                                         *)
(* A URL is a sequence of tokens: the delimiters "/" and "?" and text      *)
(* chunks that contain neither.  An exception is the name of its class.    *)
(***************************************************************************)
EXTENDS Integers, Sequences, FiniteSets, TLC

\* ------------------------------------------------------------------ bounds
NumRequests == 2

Requests == 1..NumRequests

\* The account pool: Convex document ids.  InitialPools are the sets of
\* accounts that start enabled.
Accounts == {"acct_1", "acct_2"}
InitialPools == { {}, {"acct_1"}, {"acct_1", "acct_2"} }

\* ------------------------------------------------------- values and inputs
None == "None"
NoAccount == "no_account"

\* instagrapi.exceptions (line 45): every one of them derives from ClientError.
LoginRequired == "LoginRequired"
ChallengeRequired == "ChallengeRequired"
PleaseWaitFewMinutes == "PleaseWaitFewMinutes"
MediaNotFound == "MediaNotFound"
OtherError == "Exception"
ValueError == "ValueError"
HTTPError == "HTTPError"
AttributeError == "AttributeError"
NoError == "ok"

IsClientError(e) == e \in {LoginRequired, ChallengeRequired, PleaseWaitFewMinutes, MediaNotFound}

\* What client.login can raise.
LoginSignals == {LoginRequired, ChallengeRequired, PleaseWaitFewMinutes, OtherError}
\* What client.media_pk_from_code and client.media_info can raise.
ResolveSignals == {PleaseWaitFewMinutes}
InfoSignals == {PleaseWaitFewMinutes, LoginRequired, ChallengeRequired, MediaNotFound, OtherError}
\* What client.media_comments can raise.
CommentSignals == {PleaseWaitFewMinutes, OtherError}
\* The same with every account-health signal.
AllCommentSignals == {PleaseWaitFewMinutes, ChallengeRequired, LoginRequired, OtherError}

\* Sample URLs.
ValidUrl == <<"https:", "/", "/", "www.instagram.com", "/", "reel", "/", "ABC123", "/", "?", "igsh=xyz">>
NoSegmentUrl == <<"https:", "/", "/", "www.instagram.com", "/", "stories", "/", "ABC123">>
ForeignUrl == <<"https:", "/", "/", "site.example", "/", "reel", "/", "XYZ9">>
NoUrl == <<>>

\* Request bodies: is_json is FALSE when request.get_json() yields no dict.
Bodies ==
    { [is_json |-> FALSE, url |-> NoUrl],
      [is_json |-> TRUE, url |-> NoUrl],
      [is_json |-> TRUE, url |-> ForeignUrl],
      [is_json |-> TRUE, url |-> NoSegmentUrl],
      [is_json |-> TRUE, url |-> ValidUrl] }

\* Every URL of at most MaxUrlLen chunks over UrlChunks; "/" and "?" are the
\* separators the parser looks for.
MaxUrlLen == 5
UrlChunks == {"/", "?", "reel", "p", "tv", "ABC123", "www.instagram.com"}
AllUrls == UNION { [1..n -> UrlChunks] : n \in 0..MaxUrlLen }
UrlBodies == { [is_json |-> TRUE, url |-> u] : u \in AllUrls }

\* Sample query strings, without the leading "?".
QueryStrings == { <<"igsh=xyz">>, <<"next=", "/", "p", "/", "ZZZ">>, <<"a=1", "?", "b=2">> }

\* Sample media objects returned by client.media_info.
NoMedia == [media_type |-> 0, video_url |-> None, thumbnail_url |-> None,
            caption_text |-> None, user |-> None]
MediaObjects ==
    { [media_type |-> 2, video_url |-> "https://cdn/v.mp4", thumbnail_url |-> "https://cdn/t.jpg",
       caption_text |-> "Recipe", user |-> "chef"],
      [media_type |-> 1, video_url |-> "https://cdn/v.mp4", thumbnail_url |-> None,
       caption_text |-> None, user |-> None],
      [media_type |-> 2, video_url |-> None, thumbnail_url |-> "https://cdn/t.jpg",
       caption_text |-> "Recipe", user |-> "chef"] }

\* Sample comment lists returned by client.media_comments (texts; "" is an empty comment).
CommentLists == { <<"yum", "", "2 cups flour">> }

\* Line 474: the media_type values (1 = photo, 2 = video, 8 = carousel).
MediaTypes == {1, 2, 8}

\* Every media object client.media_info can return over the sample fields.
AllMediaObjects ==
    [media_type : MediaTypes,
     video_url : {None, "https://cdn/v.mp4"},
     thumbnail_url : {None, "https://cdn/t.jpg"},
     caption_text : {None, "Recipe"},
     user : {None, "chef"}]

\* The comments of a post that has n of them, n up to MaxComments.
MaxComments == 52
PostComments(n) == [i \in 1..n |-> "yum"]
AllCommentLists == { PostComments(n) : n \in 0..MaxComments }

\* Line 460: amount=50.
CommentAmount == 50

\* ------------------------------------------------- extract_media_id_from_url
\* 'instagram.com' in url (line 398): a chunk of the URL holds the domain.
DomainChunks == {"instagram.com", "www.instagram.com"}
HasPlatformDomain(url) == \E i \in 1..Len(url) : url[i] \in DomainChunks

\* str.split(sep): the segments between the occurrences of sep.
RECURSIVE Split(_, _)
Split(s, sep) ==
    IF \A i \in 1..Len(s) : s[i] # sep
    THEN <<s>>
    ELSE LET i == CHOOSE k \in 1..Len(s) : s[k] = sep /\ \A j \in 1..(k - 1) : s[j] # sep
         IN  <<SubSeq(s, 1, i - 1)>> \o Split(SubSeq(s, i + 1, Len(s)), sep)

\* str.rstrip('/'): drop every trailing "/".
RECURSIVE RStrip(_)
RStrip(s) ==
    IF s # <<>> /\ s[Len(s)] = "/" THEN RStrip(SubSeq(s, 1, Len(s) - 1)) ELSE s

SegmentNames == { <<"reel">>, <<"p">>, <<"tv">> }

\* Mutant: the query string is not removed (no line 314).
extract_media_id_from_url_KeepsQuery(url) ==
    LET parts == Split(RStrip(url), "/")
        hits == { i \in 1..Len(parts) : parts[i] \in SegmentNames /\ i + 1 <= Len(parts) }
    IN  IF hits = {}
        THEN [ok |-> FALSE, shortcode |-> <<>>]
        ELSE [ok |-> TRUE,
              shortcode |-> parts[(CHOOSE i \in hits : \A j \in hits : i <= j) + 1]]

\* Mutant: the trailing slashes are not stripped (no rstrip at line 318).
extract_media_id_from_url_KeepsSlash(url) ==
    LET clean_url == Split(url, "?")[1]
        parts == Split(clean_url, "/")
        hits == { i \in 1..Len(parts) : parts[i] \in SegmentNames /\ i + 1 <= Len(parts) }
    IN  IF hits = {}
        THEN [ok |-> FALSE, shortcode |-> <<>>]
        ELSE [ok |-> TRUE,
              shortcode |-> parts[(CHOOSE i \in hits : \A j \in hits : i <= j) + 1]]

\* The shortcode of a URL, or a ValueError.
extract_media_id_from_url(url) ==
    LET clean_url == Split(url, "?")[1]
        parts == Split(RStrip(clean_url), "/")
        hits == { i \in 1..Len(parts) : parts[i] \in SegmentNames /\ i + 1 <= Len(parts) }
    IN  IF hits = {}
        THEN [ok |-> FALSE, shortcode |-> <<>>]
        ELSE [ok |-> TRUE,
              shortcode |-> parts[(CHOOSE i \in hits : \A j \in hits : i <= j) + 1]]

\* --------------------------------------------------------- account registry
\* The Convex functions instagramAccounts:getNextAccount, :updateLastUsed and
\* :updateAccountStatus live outside src/; they are modelled from the
\* registry contract (spec sections 3 and 4.1).
Eligible(reg) == { a \in Accounts : reg[a].status = "active" /\ reg[a].isActive }

\* The least-recently-used eligible accounts (more than one on a tie); {} if none.
getNextAccount(reg) ==
    { a \in Eligible(reg) : \A b \in Eligible(reg) : reg[a].lastUsedAt <= reg[b].lastUsedAt }

updateLastUsed(reg, a, t) ==
    [reg EXCEPT ![a].lastUsedAt = t, ![a].usageCount = @ + 1]

\* args is the mutation's argument record; isActive is optional in it.
updateAccountStatus(reg, args) ==
    [reg EXCEPT ![args.accountId].status = args.status,
                ![args.accountId].isActive =
                    IF "isActive" \in DOMAIN args THEN args.isActive ELSE @]

\* ------------------------------------------------------------- responses
NoResponse == [code |-> 0]
NoStatus == <<>>

ErrorResponse(code, error) == [code |-> code, success |-> FALSE, error |-> error]

\* get_instagram_client_with_rotation, lines 267-281: the status update each
\* except clause makes before re-raising, as <<status, is_active>>
\* (<<status>> when is_active is left out).
LoginHandlerStatus_NoChallengeClause(e) ==
    CASE e = LoginRequired -> <<"login_failed", FALSE>>
      [] OTHER -> NoStatus

LoginHandlerStatus(e) ==
    CASE e = LoginRequired -> <<"login_failed", FALSE>>
      [] e = ChallengeRequired -> <<"banned", FALSE>>
      [] OTHER -> NoStatus

AuthFailure_NoValueErrorClause(e) ==
    CASE e = LoginRequired -> ErrorResponse(401, "Instagram login failed")
      [] e = ChallengeRequired -> ErrorResponse(403, "Instagram account requires verification")
      [] OTHER -> ErrorResponse(500, "Instagram authentication failed")

\* extract_instagram, lines 410-424: the response for what
\* get_instagram_client_with_rotation raised.
AuthFailure(e) ==
    CASE e = ValueError -> ErrorResponse(503, "No Instagram accounts available")
      [] e = LoginRequired -> ErrorResponse(401, "Instagram login failed")
      [] e = ChallengeRequired -> ErrorResponse(403, "Instagram account requires verification")
      [] OTHER -> ErrorResponse(500, "Instagram authentication failed")

\* extract_instagram, lines 433-445: the status update and the response for
\* what the media fetch raised.
FetchHandlerStatus_NoUpdate(e) == NoStatus

FetchHandlerStatus(e) ==
    IF e = PleaseWaitFewMinutes THEN <<"rate_limited", FALSE>> ELSE NoStatus

\* Mutant: no except clause for PleaseWaitFewMinutes; it is a ClientError.
FetchFailure_NoRateLimitClause(e) ==
    CASE IsClientError(e) -> ErrorResponse(404, "Failed to fetch Instagram post")
      [] OTHER -> ErrorResponse(500, "Unexpected error fetching post")

FetchFailure(e) ==
    CASE e = PleaseWaitFewMinutes -> ErrorResponse(429, "Instagram rate limit reached")
      [] IsClientError(e) -> ErrorResponse(404, "Failed to fetch Instagram post")
      [] OTHER -> ErrorResponse(500, "Unexpected error fetching post")

\* Line 462: keep the texts of the non-empty comments.
FilterComments(comments) == SelectSeq(comments, LAMBDA text : text # "")

\* Mutant: the video URL is copied whatever the media type (no test at line 476).
AssembleResult_VideoUrlForAnyType(url, media, comments_data) ==
    [code |-> 200,
     success |-> TRUE,
     caption |-> IF media.caption_text = None THEN "" ELSE media.caption_text,
     comments |-> comments_data,
     videoUrl |-> media.video_url,
     thumbnailUrl |-> media.thumbnail_url,
     postUrl |-> url,
     username |-> IF media.user = None THEN "unknown" ELSE media.user,
     mediaType |-> IF media.media_type = 2 THEN "video" ELSE "photo"]

\* Lines 449 and 473-500.
AssembleResult(url, media, comments_data) ==
    [code |-> 200,
     success |-> TRUE,
     caption |-> IF media.caption_text = None THEN "" ELSE media.caption_text,
     comments |-> comments_data,
     videoUrl |-> IF media.media_type = 2 THEN media.video_url ELSE None,
     thumbnailUrl |-> media.thumbnail_url,
     postUrl |-> url,
     username |-> IF media.user = None THEN "unknown" ELSE media.user,
     mediaType |-> IF media.media_type = 2 THEN "video" ELSE "photo"]

\* ---------------------------------------------------------------- state
VARIABLES
    CONVEX_URL,     \* TRUE when the environment variable is set (line 51)
    registry,       \* the instagramAccounts table: account -> row
    now,            \* the registry's clock, the source of lastUsedAt
    pc,             \* request -> where it is in extract_instagram
    url,            \* request -> the validated URL
    account_id,     \* request -> the account handed out by the registry
    media,          \* request -> the media object fetched
    comments_data,  \* request -> the comment texts kept
    response,       \* request -> the response returned
    trace           \* request -> the calls made so far, in order

vars == <<CONVEX_URL, registry, now, pc, url, account_id, media, comments_data, response, trace>>

\* One call: its name, its argument (mutations only) and its outcome.
Event(call, arg, result) == [call |-> call, arg |-> arg, result |-> result]
Call(call, result) == Event(call, "-", result)
Responded == Call("respond", NoError)

\* Lines 199-204: the arguments of instagramAccounts:updateAccountStatus.
StatusArgs(a, st) ==
    IF Len(st) = 2
    THEN [accountId |-> a, status |-> st[1], isActive |-> st[2]]
    ELSE [accountId |-> a, status |-> st[1]]

Init ==
    /\ CONVEX_URL \in BOOLEAN
    /\ \E enabled \in InitialPools :
        registry = [a \in Accounts |-> [status |-> "active", isActive |-> a \in enabled,
                                        lastUsedAt |-> 0, usageCount |-> 0]]
    /\ now = 0
    /\ pc = [r \in Requests |-> "idle"]
    /\ url = [r \in Requests |-> NoUrl]
    /\ account_id = [r \in Requests |-> NoAccount]
    /\ media = [r \in Requests |-> NoMedia]
    /\ comments_data = [r \in Requests |-> <<>>]
    /\ response = [r \in Requests |-> NoResponse]
    /\ trace = [r \in Requests |-> <<>>]

\* The request ends: the calls made in this step, then the response.
Return(r, calls, resp) ==
    /\ pc' = [pc EXCEPT ![r] = "done"]
    /\ response' = [response EXCEPT ![r] = resp]
    /\ trace' = [trace EXCEPT ![r] = @ \o calls \o <<Responded>>]

\* The request goes on to `next` after making `calls`.
Goto(r, calls, next) ==
    /\ pc' = [pc EXCEPT ![r] = next]
    /\ trace' = [trace EXCEPT ![r] = @ \o calls]
    /\ UNCHANGED response

\* Lines 389-405 (and 502-504): read the body, validate the URL, parse the
\* shortcode.  A body that is no JSON object makes data.get raise.
\* Requests are numbered in the order they arrive.
ReceiveWith(r, bodies) ==
    /\ pc[r] = "idle"
    /\ \A q \in Requests : q < r => pc[q] # "idle"
    /\ \E body \in bodies :
        /\ url' = [url EXCEPT ![r] = body.url]
        /\ IF ~body.is_json
           THEN Return(r, <<Call("get_json", AttributeError)>>,
                       ErrorResponse(500, "Server error"))
           ELSE IF body.url = NoUrl
           THEN Return(r, <<Call("get_json", NoError)>>,
                       ErrorResponse(400, "Missing 'url' in request body"))
           ELSE IF ~HasPlatformDomain(body.url)
           THEN Return(r, <<Call("get_json", NoError)>>,
                       ErrorResponse(400, "Invalid Instagram URL"))
           ELSE IF ~extract_media_id_from_url(body.url).ok
           THEN Return(r, <<Call("get_json", NoError)>>,
                       ErrorResponse(400, "Invalid Instagram URL format"))
           ELSE Goto(r, <<Call("get_json", NoError)>>, "get_account")
    /\ UNCHANGED <<CONVEX_URL, registry, now, account_id, media, comments_data>>

\* The first step of a request, for the sample bodies.
Receive(r) == ReceiveWith(r, Bodies)

\* Mutant: the read marks the account it hands out as used (a lease).
GetAccount_Leases(r) ==
    /\ pc[r] = "get_account"
    /\ CONVEX_URL
    /\ \E a \in getNextAccount(registry) :
        /\ account_id' = [account_id EXCEPT ![r] = a]
        /\ registry' = updateLastUsed(registry, a, now + 1)
    /\ now' = now + 1
    /\ Goto(r, <<Call("getNextAccount", "account")>>, "login")
    /\ UNCHANGED <<CONVEX_URL, url, media, comments_data>>

\* Lines 242-245 with get_instagram_account_from_convex (121-153) and
\* convex_query (71-85); the handlers of lines 410-416 and 423-424.
GetAccount(r) ==
    /\ pc[r] = "get_account"
    /\ \/ /\ ~CONVEX_URL
          /\ Return(r, <<Call("getNextAccount", ValueError)>>,
                    AuthFailure(ValueError))
          /\ UNCHANGED account_id
       \/ /\ CONVEX_URL
          /\ Return(r, <<Call("getNextAccount", HTTPError)>>,
                    AuthFailure(HTTPError))
          /\ UNCHANGED account_id
       \/ /\ CONVEX_URL
          /\ getNextAccount(registry) = {}
          /\ Return(r, <<Call("getNextAccount", "none")>>,
                    AuthFailure(ValueError))
          /\ UNCHANGED account_id
       \/ /\ CONVEX_URL
          /\ \E a \in getNextAccount(registry) :
                account_id' = [account_id EXCEPT ![r] = a]
          /\ Goto(r, <<Call("getNextAccount", "account")>>, "login")
    /\ UNCHANGED <<CONVEX_URL, registry, now, url, media, comments_data>>

\* update_instagram_account_status (lines 177-210): one attempt at the
\* mutation; a failure is printed and swallowed.  The registry afterwards.
update_instagram_account_status(reg, a, st, ok) ==
    IF ok THEN updateAccountStatus(reg, StatusArgs(a, st)) ELSE reg

\* Mutant: a usage report also marks the account active again.
update_instagram_account_usage_Reactivates(reg, a, t, ok) ==
    IF ok
    THEN updateAccountStatus(updateLastUsed(reg, a, t),
                             [accountId |-> a, status |-> "active", isActive |-> TRUE])
    ELSE reg

\* update_instagram_account_usage (lines 155-175), likewise.
update_instagram_account_usage(reg, a, t, ok) ==
    IF ok THEN updateLastUsed(reg, a, t) ELSE reg

MutationResult(ok) == IF ok THEN NoError ELSE HTTPError

\* The status update of an except clause: none when st is NoStatus, else one
\* attempt at the mutation, which succeeds or fails.
StatusUpdate(r, st, ok) ==
    IF st = NoStatus
    THEN /\ ok
         /\ UNCHANGED registry
    ELSE registry' = update_instagram_account_status(registry, account_id[r], st, ok)

StatusCalls(r, st, ok) ==
    IF st = NoStatus
    THEN <<>>
    ELSE <<Event("updateAccountStatus", StatusArgs(account_id[r], st), MutationResult(ok))>>

\* Mutant: a failed login goes back for another account.
Login_Retries(r) ==
    /\ pc[r] = "login"
    /\ \E e \in LoginSignals \cup {NoError}, ok \in BOOLEAN :
        /\ StatusUpdate(r, IF e = NoError THEN NoStatus ELSE LoginHandlerStatus(e), ok)
        /\ Goto(r, <<Call("login", e)>>
                    \o StatusCalls(r, IF e = NoError THEN NoStatus ELSE LoginHandlerStatus(e), ok),
                IF e = NoError THEN "fetch_media" ELSE "get_account")
    /\ UNCHANGED <<CONVEX_URL, now, url, account_id, media, comments_data>>

\* Mutant: the usage is reported as soon as the login succeeded.
Login_ReportsUsage(r) ==
    /\ pc[r] = "login"
    /\ \E e \in LoginSignals \cup {NoError}, ok \in BOOLEAN :
        IF e = NoError
        THEN /\ registry' = update_instagram_account_usage(registry, account_id[r], now + 1, ok)
             /\ now' = IF ok THEN now + 1 ELSE now
             /\ Goto(r, <<Call("login", e),
                        Event("updateLastUsed", [accountId |-> account_id[r]],
                              MutationResult(ok))>>,
                     "fetch_media")
        ELSE /\ StatusUpdate(r, LoginHandlerStatus(e), ok)
             /\ UNCHANGED now
             /\ Return(r, <<Call("login", e)>> \o StatusCalls(r, LoginHandlerStatus(e), ok),
                       AuthFailure(e))
    /\ UNCHANGED <<CONVEX_URL, url, account_id, media, comments_data>>

\* Lines 247-281: client.login; on an exception the except clause updates
\* the account's status and re-raises, and extract_instagram answers
\* (lines 417-424).
Login(r) ==
    /\ pc[r] = "login"
    /\ \E e \in LoginSignals \cup {NoError}, ok \in BOOLEAN :
        IF e = NoError
        THEN /\ ok
             /\ Goto(r, <<Call("login", e)>>, "fetch_media")
             /\ UNCHANGED registry
        ELSE /\ StatusUpdate(r, LoginHandlerStatus(e), ok)
             /\ Return(r, <<Call("login", e)>> \o StatusCalls(r, LoginHandlerStatus(e), ok),
                       AuthFailure(e))
    /\ UNCHANGED <<CONVEX_URL, now, url, account_id, media, comments_data>>

\* Lines 427-445: client.media_pk_from_code, then client.media_info; on an
\* exception the handler updates the status (rate limit only) and answers.
FetchMedia(r) ==
    /\ pc[r] = "fetch_media"
    /\ \/ \E e \in ResolveSignals, ok \in BOOLEAN :
            /\ StatusUpdate(r, FetchHandlerStatus(e), ok)
            /\ Return(r, <<Call("media_pk_from_code", e)>>
                         \o StatusCalls(r, FetchHandlerStatus(e), ok),
                      FetchFailure(e))
            /\ UNCHANGED media
       \/ \E e \in InfoSignals, ok \in BOOLEAN :
            /\ StatusUpdate(r, FetchHandlerStatus(e), ok)
            /\ Return(r, <<Call("media_pk_from_code", NoError), Call("media_info", e)>>
                         \o StatusCalls(r, FetchHandlerStatus(e), ok),
                      FetchFailure(e))
            /\ UNCHANGED media
       \/ \E m \in MediaObjects :
            /\ media' = [media EXCEPT ![r] = m]
            /\ Goto(r, <<Call("media_pk_from_code", NoError), Call("media_info", NoError)>>,
                    "fetch_comments")
            /\ UNCHANGED registry
    /\ UNCHANGED <<CONVEX_URL, now, url, account_id, comments_data>>

\* client.media_comments(media_pk, amount): the first `amount` comments of
\* the post, all of them when amount is 0.
media_comments(available, amount) ==
    IF amount = 0 \/ Len(available) <= amount
    THEN available
    ELSE SubSeq(available, 1, amount)

\* Mutant: the call asks for every comment (amount=0).
FetchComments_NoLimit(available) == media_comments(available, 0)

\* Line 460: comments = client.media_comments(media_pk, amount=50).
FetchComments(available) == media_comments(available, CommentAmount)

\* What the call of line 460 does for the posts in `lists`: return a comment
\* list or raise.
CommentOutcomesOf(lists) ==
    { [result |-> NoError, comments |-> FetchComments(c)] : c \in lists }
        \cup { [result |-> e, comments |-> <<>>] : e \in CommentSignals }

CommentOutcomes == CommentOutcomesOf(CommentLists)

\* Lines 453-471: comments_data after the try block.
CommentsKept(outcome) ==
    IF outcome.result = NoError THEN FilterComments(outcome.comments) ELSE <<>>

UsageCall(r, ok) == Event("updateLastUsed", [accountId |-> account_id[r]], MutationResult(ok))

\* Mutant: a ClientError of client.media_comments is handled like one of the
\* media fetch: a rate limit is written to the registry and answered 429,
\* any other is answered 404.
FinishWith_CommentSignalDegrades(r, outcomes) ==
    /\ pc[r] = "fetch_comments"
    /\ \E outcome \in outcomes, ok \in BOOLEAN :
        /\ comments_data' = [comments_data EXCEPT ![r] = CommentsKept(outcome)]
        /\ IF IsClientError(outcome.result)
           THEN /\ StatusUpdate(r, FetchHandlerStatus(outcome.result), ok)
                /\ UNCHANGED now
                /\ Return(r, <<Call("sleep", NoError), Call("media_comments", outcome.result)>>
                              \o StatusCalls(r, FetchHandlerStatus(outcome.result), ok),
                          FetchFailure(outcome.result))
           ELSE /\ registry' = update_instagram_account_usage(registry, account_id[r], now + 1, ok)
                /\ now' = IF ok THEN now + 1 ELSE now
                /\ Return(r, <<Call("sleep", NoError), Call("media_comments", outcome.result),
                               UsageCall(r, ok)>>,
                          AssembleResult(url[r], media[r], CommentsKept(outcome)))
    /\ UNCHANGED <<CONVEX_URL, url, account_id, media>>

\* Lines 447-500: sleep one second and fetch the comments (any exception is
\* printed and leaves comments_data empty), assemble the result, report the
\* usage (a failure is printed and swallowed), answer 200.
FinishWith(r, outcomes) ==
    /\ pc[r] = "fetch_comments"
    /\ \E outcome \in outcomes, ok \in BOOLEAN :
        /\ comments_data' = [comments_data EXCEPT ![r] = CommentsKept(outcome)]
        /\ registry' = update_instagram_account_usage(registry, account_id[r], now + 1, ok)
        /\ now' = IF ok THEN now + 1 ELSE now
        /\ Return(r, <<Call("sleep", NoError), Call("media_comments", outcome.result),
                       UsageCall(r, ok)>>,
                  AssembleResult(url[r], media[r], CommentsKept(outcome)))
    /\ UNCHANGED <<CONVEX_URL, url, account_id, media>>

\* Mutant: an exception of client.media_comments is not caught at line 465
\* and reaches the handler of lines 502-504.
Finish_CommentErrorAborts(r) ==
    /\ pc[r] = "fetch_comments"
    /\ \E outcome \in CommentOutcomes, ok \in BOOLEAN :
        /\ comments_data' = [comments_data EXCEPT ![r] = CommentsKept(outcome)]
        /\ IF outcome.result = NoError
           THEN /\ registry' = update_instagram_account_usage(registry, account_id[r], now + 1, ok)
                /\ now' = IF ok THEN now + 1 ELSE now
                /\ Return(r, <<Call("sleep", NoError), Call("media_comments", outcome.result),
                               UsageCall(r, ok)>>,
                          AssembleResult(url[r], media[r], CommentsKept(outcome)))
           ELSE /\ ok
                /\ UNCHANGED <<registry, now>>
                /\ Return(r, <<Call("sleep", NoError), Call("media_comments", outcome.result)>>,
                          ErrorResponse(500, "Server error"))
    /\ UNCHANGED <<CONVEX_URL, url, account_id, media>>

\* Mutant: the delay comes after the comment fetch.
Finish_SleepsAfter(r) ==
    /\ pc[r] = "fetch_comments"
    /\ \E outcome \in CommentOutcomes, ok \in BOOLEAN :
        /\ comments_data' = [comments_data EXCEPT ![r] = CommentsKept(outcome)]
        /\ registry' = update_instagram_account_usage(registry, account_id[r], now + 1, ok)
        /\ now' = IF ok THEN now + 1 ELSE now
        /\ Return(r, <<Call("media_comments", outcome.result), Call("sleep", NoError),
                       UsageCall(r, ok)>>,
                  AssembleResult(url[r], media[r], CommentsKept(outcome)))
    /\ UNCHANGED <<CONVEX_URL, url, account_id, media>>

\* Mutant: a failed usage report is re-raised and reaches lines 502-504.
Finish_UsageErrorRaises(r) ==
    /\ pc[r] = "fetch_comments"
    /\ \E outcome \in CommentOutcomes, ok \in BOOLEAN :
        /\ comments_data' = [comments_data EXCEPT ![r] = CommentsKept(outcome)]
        /\ registry' = update_instagram_account_usage(registry, account_id[r], now + 1, ok)
        /\ now' = IF ok THEN now + 1 ELSE now
        /\ Return(r, <<Call("sleep", NoError), Call("media_comments", outcome.result),
                       UsageCall(r, ok)>>,
                  IF ok THEN AssembleResult(url[r], media[r], CommentsKept(outcome))
                        ELSE ErrorResponse(500, "Server error"))
    /\ UNCHANGED <<CONVEX_URL, url, account_id, media>>

\* Mutant: the usage is reported only when comments were fetched.
Finish_ReportsOnlyWithComments(r) ==
    /\ pc[r] = "fetch_comments"
    /\ \E outcome \in CommentOutcomes, ok \in BOOLEAN :
        /\ comments_data' = [comments_data EXCEPT ![r] = CommentsKept(outcome)]
        /\ IF outcome.result = NoError
           THEN /\ registry' = update_instagram_account_usage(registry, account_id[r], now + 1, ok)
                /\ now' = IF ok THEN now + 1 ELSE now
                /\ Return(r, <<Call("sleep", NoError), Call("media_comments", outcome.result),
                               UsageCall(r, ok)>>,
                          AssembleResult(url[r], media[r], CommentsKept(outcome)))
           ELSE /\ ok
                /\ UNCHANGED <<registry, now>>
                /\ Return(r, <<Call("sleep", NoError), Call("media_comments", outcome.result)>>,
                          AssembleResult(url[r], media[r], CommentsKept(outcome)))
    /\ UNCHANGED <<CONVEX_URL, url, account_id, media>>

\* The last step of a request, for the sample posts.
Finish(r) == FinishWith(r, CommentOutcomes)

Next ==
    \E r \in Requests :
        \/ Receive(r)
        \/ GetAccount(r)
        \/ Login(r)
        \/ FetchMedia(r)
        \/ Finish(r)

Spec == Init /\ [][Next]_vars

\* ---------------------------------------------------- URL parsing alone
\* One request, for every URL: lines 389-405 on their own.
InitUrl ==
    /\ Init
    /\ CONVEX_URL = TRUE
    /\ \A a \in Accounts : registry[a].isActive

ReceiveAny == ReceiveWith(1, UrlBodies)

NextUrl == ReceiveAny

SpecUrl == InitUrl /\ [][NextUrl]_vars

\* ------------------------------------------------- result assembly alone
\* One request that has fetched the metadata of its post, for every media
\* object and every number of comments: lines 447-500 on their own.
InitResult ==
    /\ CONVEX_URL = TRUE
    /\ registry = [a \in Accounts |-> [status |-> "active", isActive |-> TRUE,
                                       lastUsedAt |-> 0, usageCount |-> 0]]
    /\ now = 0
    /\ pc = [r \in Requests |-> IF r = 1 THEN "fetch_comments" ELSE "idle"]
    /\ url = [r \in Requests |-> IF r = 1 THEN ValidUrl ELSE NoUrl]
    /\ account_id = [r \in Requests |-> IF r = 1 THEN "acct_1" ELSE NoAccount]
    /\ \E m \in AllMediaObjects : media = [r \in Requests |-> IF r = 1 THEN m ELSE NoMedia]
    /\ comments_data = [r \in Requests |-> <<>>]
    /\ response = [r \in Requests |-> NoResponse]
    /\ trace = [r \in Requests |->
                    IF r = 1
                    THEN <<Call("get_json", NoError), Call("getNextAccount", "account"),
                           Call("login", NoError), Call("media_pk_from_code", NoError),
                           Call("media_info", NoError)>>
                    ELSE <<>>]

\* What the call of line 460 does for every post and every signal.
AllCommentOutcomes ==
    CommentOutcomesOf(AllCommentLists)
        \cup { [result |-> e, comments |-> <<>>] : e \in AllCommentSignals }

FinishAny == FinishWith(1, AllCommentOutcomes)

NextResult == FinishAny

SpecResult == InitResult /\ [][NextResult]_vars

\* ======================================================================
\* Properties
\* ======================================================================
Done(r) == pc[r] = "done"
InFlight(r) == pc[r] \in {"login", "fetch_media", "fetch_comments"}

\* The positions in r's trace of the calls named `call`.
Calls(r, call) == { i \in 1..Len(trace[r]) : trace[r][i].call = call }
Count(r, call) == Cardinality(Calls(r, call))
\* r made the call and it ended with `result`.
Got(r, call, result) == \E i \in Calls(r, call) : trace[r][i].result = result

PlatformCalls == {"login", "media_pk_from_code", "media_info", "media_comments"}
MetadataCalls == {"media_pk_from_code", "media_info"}
NoPlatformCalls(r) == \A i \in 1..Len(trace[r]) : trace[r][i].call \notin PlatformCalls

\* The status each account-health signal stands for (docstring, lines 189-192).
HealthSignals == {LoginRequired, ChallengeRequired, PleaseWaitFewMinutes}
HealthStatus(e) ==
    CASE e = LoginRequired -> "login_failed"
      [] e = ChallengeRequired -> "banned"
      [] e = PleaseWaitFewMinutes -> "rate_limited"

\* r issued the status update <<status, is_active = FALSE>> for its own
\* account at position j of its trace.
IsStatusWrite(r, j, status) ==
    /\ trace[r][j].call = "updateAccountStatus"
    /\ trace[r][j].arg = [accountId |-> account_id[r], status |-> status, isActive |-> FALSE]

\* r issued exactly one status update, the one for `status`, before responding.
WroteStatus(r, status) ==
    /\ Count(r, "updateAccountStatus") = 1
    /\ \E j \in Calls(r, "updateAccountStatus") :
        /\ IsStatusWrite(r, j, status)
        /\ \A k \in Calls(r, "respond") : j < k

\* The accounts for which a finished request's update to `status` succeeded.
WrittenAs(status) ==
    { account_id[r] : r \in { q \in Requests :
        /\ Done(q)
        /\ \E j \in Calls(q, "updateAccountStatus") :
            IsStatusWrite(q, j, status) /\ trace[q][j].result = NoError } }

\* The step is r's registry read handing out an account.
ReadStep(r) == pc[r] = "get_account" /\ pc'[r] = "login"

\* ---------------------------------------------------------------- C1
\* C1 (as claimed): whenever a finished request saw an account-health signal
\* (LoginRequired, ChallengeRequired, PleaseWaitFewMinutes) at login or at
\* the metadata fetch, it issued the matching status update for its account
\* before it responded.
C1_HealthFailureWrittenBeforeResponse ==
    \A r \in Requests :
        Done(r) =>
            \A i \in 1..Len(trace[r]) :
                (/\ trace[r][i].call \in {"login"} \cup MetadataCalls
                 /\ trace[r][i].result \in HealthSignals)
                    => \E j \in (i + 1)..Len(trace[r]) :
                        /\ IsStatusWrite(r, j, HealthStatus(trace[r][i].result))
                        /\ \A k \in Calls(r, "respond") : j < k

C2_ChallengedState ==
    \A r \in Requests :
        (Done(r) /\ Got(r, "login", ChallengeRequired)) =>
            /\ response[r].code = 403
            /\ WroteStatus(r, "banned")
            /\ account_id[r] \in WrittenAs("banned") => account_id[r] \notin Eligible(registry)

C3_RateLimitedState ==
    \A r \in Requests :
        (Done(r) /\ \E c \in MetadataCalls : Got(r, c, PleaseWaitFewMinutes)) =>
            /\ response[r].code = 429
            /\ WroteStatus(r, "rate_limited")
            /\ account_id[r] \in WrittenAs("rate_limited")
                => account_id[r] \notin Eligible(registry)

C4_NoAccountsNoPlatformCalls ==
    \A r \in Requests :
        (Done(r) /\ Got(r, "getNextAccount", "none")) =>
            /\ response[r].code = 503
            /\ NoPlatformCalls(r)
            /\ account_id[r] = NoAccount
            /\ Eligible(registry) = {}

C4_Witness ==
    \E r \in Requests : Done(r) /\ Got(r, "getNextAccount", "none")

\* ---------------------------------------------------------------- C5
Mutations == {"updateAccountStatus", "updateLastUsed"}

\* What a request was given: its URL, the media and comments it fetched, and
\* the outcome of every call other than a registry write.
Given(r) ==
    LET calls == SelectSeq(trace[r], LAMBDA ev : ev.call \notin Mutations)
    IN  [i \in 1..Len(calls) |-> <<calls[i].call, calls[i].result>>]

SameInputs(r1, r2) ==
    /\ url[r1] = url[r2]
    /\ media[r1] = media[r2]
    /\ comments_data[r1] = comments_data[r2]
    /\ Given(r1) = Given(r2)

C6_SuccessReportsUsageOnce ==
    \A r \in Requests :
        (Done(r) /\ response[r].code = 200) =>
            /\ Count(r, "updateLastUsed") = 1
            /\ \A i \in Calls(r, "updateLastUsed") :
                trace[r][i].arg = [accountId |-> account_id[r]]
            /\ Count(r, "updateAccountStatus") = 0

C6_Witness ==
    \E r \in Requests : Done(r) /\ response[r].code = 200 /\ comments_data[r] = <<>>

\* ---------------------------------------------------------------- C7
\* C7: a request whose media_info succeeded and whose media_comments raised
\* answers 200 with no comments and with caption, video URL, thumbnail URL,
\* post URL, username and media type taken from the media object.
C7_CommentFailureIsNotFatal ==
    \A r \in Requests :
        (/\ Done(r)
         /\ Got(r, "media_info", NoError)
         /\ \E e \in CommentSignals : Got(r, "media_comments", e)) =>
            /\ response[r].code = 200
            /\ response[r].success
            /\ response[r].comments = <<>>
            /\ response[r].caption = (IF media[r].caption_text = None THEN "" ELSE media[r].caption_text)
            /\ response[r].videoUrl = (IF media[r].media_type = 2 THEN media[r].video_url ELSE None)
            /\ response[r].thumbnailUrl = media[r].thumbnail_url
            /\ response[r].postUrl = url[r]
            /\ response[r].username = (IF media[r].user = None THEN "unknown" ELSE media[r].user)
            /\ response[r].mediaType = (IF media[r].media_type = 2 THEN "video" ELSE "photo")
            /\ media[r] \in MediaObjects

C7_Witness ==
    \E r \in Requests :
        /\ Done(r)
        /\ Got(r, "media_info", NoError)
        /\ Got(r, "media_comments", PleaseWaitFewMinutes)
        /\ media[r].media_type = 2 /\ media[r].video_url # None

\* ---------------------------------------------------------------- C8
\* C8: the registry read takes no lease: the step that hands an account to a
\* request leaves the registry as it was, so the account is still the one
\* the registry hands out next.
C8_ReadTakesNoLease ==
    [][\A r \in Requests :
        ReadStep(r) => /\ registry' = registry
                       /\ account_id'[r] \in getNextAccount(registry')]_vars

\* Two requests in flight hold the same account although another account
\* is eligible.
C8_Witness ==
    \E r1, r2 \in Requests :
        /\ r1 # r2
        /\ InFlight(r1) /\ InFlight(r2)
        /\ account_id[r1] = account_id[r2]
        /\ \E b \in Eligible(registry) : b # account_id[r1]

\* ---------------------------------------------------------------- C9
\* C9: a request sleeps at most once; the sleep comes right after a
\* successful media_info, right before media_comments and before the usage
\* report and the response; a request whose metadata fetch failed never
\* sleeps, and one that answered 200 slept once.
C9_DelayBetweenMetadataAndComments ==
    \A r \in Requests :
        LET sleeps == Calls(r, "sleep")
        IN  /\ \A i, j \in sleeps : i = j
            /\ \A i \in 1..Len(trace[r]) :
                LET ev == trace[r][i]
                IN  /\ ev.call = "sleep" =>
                        /\ i > 1
                        /\ trace[r][i - 1] = Call("media_info", NoError)
                        /\ i < Len(trace[r])
                        /\ trace[r][i + 1].call = "media_comments"
                    /\ ev.call = "media_comments" => i - 1 \in sleeps
                    /\ ev.call \in {"updateLastUsed", "respond"} => \A k \in sleeps : k < i
                    /\ (ev.call \in MetadataCalls /\ ev.result # NoError) => sleeps = {}
            /\ (Done(r) /\ response[r].code = 200) => sleeps # {}

C9_Witness ==
    \E r1, r2 \in Requests :
        /\ Done(r1) /\ response[r1].code = 200 /\ Count(r1, "sleep") = 1
        /\ Done(r2) /\ Got(r2, "media_info", MediaNotFound)

\* --------------------------------------------------------------- C10
\* C10: a request makes at most one registry read, one login, one
\* identifier resolution, one media_info and one comment fetch; it holds an
\* account only if that one read handed it out, every registry write it
\* makes names that account, and the account it holds never changes.
C10_State ==
    \A r \in Requests :
        /\ \A c \in {"getNextAccount"} \cup PlatformCalls : Count(r, c) <= 1
        /\ account_id[r] # NoAccount <=> Got(r, "getNextAccount", "account")
        /\ \A i \in 1..Len(trace[r]) :
            trace[r][i].call \in Mutations => trace[r][i].arg.accountId = account_id[r]

C10_NoRetry ==
    /\ []C10_State
    /\ [][\A r \in Requests : account_id[r] # NoAccount => account_id'[r] = account_id[r]]_vars

\* A request failed at login while another account was eligible.
C10_Witness ==
    \E r \in Requests :
        /\ Done(r)
        /\ Got(r, "login", LoginRequired)
        /\ \E b \in Eligible(registry) : b # account_id[r]

\* --------------------------------------------------------------- C11
\* C11 (as claimed): every finished request whose login raised an error
\* answered only after a status update for its account was issued; when the
\* error was PleaseWaitFewMinutes the update carries rate_limited.
C11_LoginErrorWrittenBeforeReraise ==
    \A r \in Requests :
        \A i \in Calls(r, "login") :
            (Done(r) /\ trace[r][i].result # NoError) =>
                \E j \in (i + 1)..Len(trace[r]) :
                    /\ trace[r][j].call = "updateAccountStatus"
                    /\ trace[r][j].arg.accountId = account_id[r]
                    /\ trace[r][i].result = PleaseWaitFewMinutes
                        => trace[r][j].arg.status = "rate_limited"
                    /\ \A k \in Calls(r, "respond") : j < k

\* --------------------------------------------------------------- C12
\* C12 (as claimed): a finished request answered 503 (no accounts available)
\* exactly when its registry read completed and returned no account; a read
\* that failed (transport or HTTP error, CONVEX_URL not configured) is
\* answered with another code.
C12_NoAccountsOnlyWhenReadReturnedNone ==
    \A r \in Requests :
        Done(r) => (response[r].code = 503 <=> Got(r, "getNextAccount", "none"))

\* --------------------------------------------------------------- C13
Failed(r) == Done(r) /\ response[r].code # 200

\* The failure class of a failed request, by where it failed and on what:
\* the reading and validation of the URL, an empty registry read, the login,
\* the media fetch.  A registry read that raised is the subject of C12 and
\* has no class here.
FailureClasses ==
    {"input_error", "no_accounts", "auth_failure", "challenged", "rate_limited",
     "not_found", "unexpected"}
FailureClass(r) ==
    CASE Calls(r, "getNextAccount") = {} -> "input_error"
      [] Got(r, "getNextAccount", "none") -> "no_accounts"
      [] Calls(r, "login") = {} -> "registry_read_failure"
      [] Got(r, "login", ChallengeRequired) -> "challenged"
      [] Calls(r, "media_pk_from_code") = {} -> "auth_failure"
      [] \E c \in MetadataCalls : Got(r, c, PleaseWaitFewMinutes) -> "rate_limited"
      [] \E c \in MetadataCalls, e \in InfoSignals : IsClientError(e) /\ Got(r, c, e) -> "not_found"
      [] OTHER -> "unexpected"
Classified(r) == Failed(r) /\ FailureClass(r) \in FailureClasses

InvalidInput(r) ==
    \/ url[r] = NoUrl
    \/ ~HasPlatformDomain(url[r])
    \/ ~extract_media_id_from_url(url[r]).ok

\* C14 (as claimed): a finished request with an invalid input answered 400
\* and made no registry read, no registry write and no platform call.
C14_InvalidInputAnswers400 ==
    \A r \in Requests :
        (Done(r) /\ InvalidInput(r)) =>
            /\ response[r].code = 400
            /\ \A i \in 1..Len(trace[r]) :
                trace[r][i].call \notin {"getNextAccount"} \cup Mutations \cup PlatformCalls

\* --------------------------------------------------------------- C15
\* C15: in every successful result mediaType is "video" exactly when the
\* media object's type code is 2 and "photo" otherwise; videoUrl holds the
\* platform's video URL when the type code is 2 and the platform returned
\* one, and is empty (None) in every other case, also when the platform
\* supplied a video URL for another type code.
C15_VideoOnlyForTypeTwo ==
    \A r \in Requests :
        (Done(r) /\ response[r].code = 200) =>
            /\ response[r].mediaType \in {"video", "photo"}
            /\ response[r].mediaType = "video" <=> media[r].media_type = 2
            /\ response[r].videoUrl =
                IF media[r].media_type = 2 THEN media[r].video_url ELSE None

\* A carousel (type code 8) whose media object carries a video URL was
\* answered as a photo without videoUrl.
C15_Witness ==
    \E r \in Requests :
        /\ Done(r) /\ response[r].code = 200
        /\ media[r].media_type = 8 /\ media[r].video_url # None
        /\ response[r].mediaType = "photo" /\ response[r].videoUrl = None

\* --------------------------------------------------------------- C16
\* C16: the comments of every successful result number at most 50, however
\* many comments the post has.
C16_AtMostFiftyComments ==
    \A r \in Requests :
        (Done(r) /\ response[r].code = 200) =>
            /\ Len(response[r].comments) <= 50
            /\ response[r].comments = comments_data[r]

\* A successful result with exactly 50 comments (the post has 50 or more).
C16_Witness ==
    \E r \in Requests :
        /\ Done(r) /\ response[r].code = 200
        /\ Got(r, "media_comments", NoError)
        /\ Len(response[r].comments) = 50

\* --------------------------------------------------------------- C17
\* The URL was accepted: it names the platform domain and a shortcode was
\* parsed from it.
Accepted(r) == pc[r] # "idle" /\ Got(r, "get_json", NoError) /\ ~InvalidInput(r)

\* C17: for every accepted URL, parsing the URL with "?" and a query string
\* appended gives the same shortcode as parsing the URL itself.
C17_QueryStringIsStripped ==
    \A r \in Requests :
        Accepted(r) =>
            /\ pc[r] # "done"
            /\ \A q \in QueryStrings :
                extract_media_id_from_url(url[r] \o <<"?">> \o q)
                    = extract_media_id_from_url(url[r])

\* www.instagram.com/reel/ABC123 was accepted, and with ?next=/p/ZZZ appended
\* its shortcode is still ABC123.
C17_Witness ==
    \E r \in Requests :
        /\ Accepted(r)
        /\ url[r] = <<"www.instagram.com", "/", "reel", "/", "ABC123">>
        /\ extract_media_id_from_url(url[r] \o <<"?", "next=", "/", "p", "/", "ZZZ">>)
            = [ok |-> TRUE, shortcode |-> <<"ABC123">>]

\* --------------------------------------------------------------- C18
\* The part of the URL before its query string.
BeforeQuery(u) ==
    LET marks == { i \in 1..Len(u) : u[i] = "?" }
    IN  IF marks = {} THEN u
        ELSE SubSeq(u, 1, (CHOOSE i \in marks : \A j \in marks : i <= j) - 1)

\* Before its query string the URL has a segment reel, p or tv (a chunk on
\* its own between slashes or at the start) followed by another segment
\* (something other than slashes comes after the slash that ends it).  The
\* segments are those of the whole URL, scheme and host included.
HasPostSegment(u) ==
    LET path == BeforeQuery(u)
    IN  \E i \in 1..Len(path) :
            /\ path[i] \in {"reel", "p", "tv"}
            /\ i = 1 \/ path[i - 1] = "/"
            /\ i < Len(path) /\ path[i + 1] = "/"
            /\ \E k \in (i + 2)..Len(path) : path[k] # "/"

\* C18: for every URL without a reel, p or tv segment followed by another
\* segment, parsing raises ValueError and returns no shortcode; a request
\* with such a URL that names the platform domain is answered 400.
C18_NoPostSegmentIsRejected ==
    \A r \in Requests :
        (pc[r] # "idle" /\ ~HasPostSegment(url[r])) =>
            /\ extract_media_id_from_url(url[r]) = [ok |-> FALSE, shortcode |-> <<>>]
            /\ Done(r) /\ response[r].code = 400
            /\ HasPlatformDomain(url[r]) =>
                response[r].error = "Invalid Instagram URL format"

\* www.instagram.com/reel/ (a reel segment with nothing after it) was
\* rejected by the parser.
C18_Witness ==
    \E r \in Requests :
        /\ Done(r)
        /\ url[r] = <<"www.instagram.com", "/", "reel", "/">>
        /\ ~HasPostSegment(url[r])
        /\ response[r] = ErrorResponse(400, "Invalid Instagram URL format")

\* --------------------------------------------------------------- C19
\* C19: every status update a request issues carries a status other than
\* active together with is_active = FALSE, and no step makes an account
\* that is not eligible eligible again: not a status update, and not the
\* usage report of another request that holds the same account.
C19_State ==
    \A r \in Requests :
        \A i \in 1..Len(trace[r]) :
            trace[r][i].call = "updateAccountStatus" =>
                /\ trace[r][i].arg.status # "active"
                /\ "isActive" \in DOMAIN trace[r][i].arg
                /\ trace[r][i].arg.isActive = FALSE

C19_DegradationIsMonotonic ==
    /\ []C19_State
    /\ [][Eligible(registry') \subseteq Eligible(registry)]_vars

\* Two requests held the same account: the status update of one succeeded,
\* and so did the usage report of the other; the account is not eligible.
C19_Witness ==
    \E r1, r2 \in Requests :
        /\ Done(r1) /\ Done(r2) /\ account_id[r1] = account_id[r2]
        /\ \E i \in Calls(r1, "updateAccountStatus") : trace[r1][i].result = NoError
        /\ Got(r2, "updateLastUsed", NoError)
        /\ registry[account_id[r1]].usageCount > 0
        /\ account_id[r1] \notin Eligible(registry)

\* --------------------------------------------------------------- C20
\* C20: a request issues at most one registry write; a request that failed
\* issued no usage report, and a request that succeeded no status update.
C20_OneWritePerRequest ==
    \A r \in Requests :
        LET writes == { i \in 1..Len(trace[r]) : trace[r][i].call \in Mutations }
        IN  /\ Cardinality(writes) <= 1
            /\ Failed(r) => \A i \in writes : trace[r][i].call = "updateAccountStatus"
            /\ (Done(r) /\ ~Failed(r)) => \A i \in writes : trace[r][i].call = "updateLastUsed"

\* One request failed after its status update, another succeeded after its
\* usage report.
C20_Witness ==
    \E r1, r2 \in Requests :
        /\ Failed(r1) /\ Count(r1, "updateAccountStatus") = 1 /\ Count(r1, "updateLastUsed") = 0
        /\ Done(r2) /\ response[r2].code = 200
        /\ Count(r2, "updateLastUsed") = 1 /\ Count(r2, "updateAccountStatus") = 0

\* --------------------------------------------------------------- C21
\* C21: a request whose comment fetch raised PleaseWaitFewMinutes,
\* ChallengeRequired or LoginRequired answers 200 with no comments, issues
\* no status update and one usage report, and its account is still
\* eligible; no step of the comment fetch changes the status or the
\* is_active flag of an account.
C21_State ==
    \A r \in Requests :
        (Done(r) /\ \E e \in HealthSignals : Got(r, "media_comments", e)) =>
            /\ response[r].code = 200
            /\ response[r].success
            /\ response[r].comments = <<>>
            /\ Count(r, "updateAccountStatus") = 0
            /\ Count(r, "updateLastUsed") = 1
            /\ \A i \in Calls(r, "updateLastUsed") :
                /\ trace[r][i].arg.accountId = account_id[r]
                /\ \E j \in Calls(r, "media_comments") : j < i
            /\ account_id[r] \in Eligible(registry)

C21_CommentSignalsDoNotDegrade ==
    /\ []C21_State
    /\ [][\A a \in Accounts :
            /\ registry'[a].status = registry[a].status
            /\ registry'[a].isActive = registry[a].isActive]_vars

\* The comment fetch of a request raised ChallengeRequired; the request
\* answered 200, its usage report reached the registry and its account is
\* eligible.
C21_Witness ==
    \E r \in Requests :
        /\ Done(r) /\ Got(r, "media_comments", ChallengeRequired)
        /\ response[r].code = 200
        /\ Got(r, "updateLastUsed", NoError)
        /\ registry[account_id[r]].usageCount = 1
        /\ account_id[r] \in Eligible(registry)

====
